---- MODULE Spec2Model ----
(***************************************************************************)
(* Model of the flacman-fs crate: the transfer engine (mv.rs) and the      *)
(* traversal engine (fd.rs) over an explicit model of the filesystem they  *)
(* act on (std::fs and std::path as used by the crate).                    *)
(***************************************************************************)
EXTENDS Integers, Sequences, FiniteSets, TLC

\* ------------------------------------------------------------------------
\* The filesystem the transfer engine acts on.
\*
\* Three directories: "d" (volume 1) and "e" (volume 2) exist, "n" does not.
\* Four paths name an entry inside them.  An entry is absent, a regular file
\* (a name for an inode), a symbolic link (it stores a path) or a directory.
\* Inodes carry the content and the read-only permission bit.
\* ------------------------------------------------------------------------

MaxIno == 3

Inodes == 1..MaxIno

Slots == {"d/a", "d/b", "e/c", "n/x"}

LiveSlots == {"d/a", "d/b", "e/c"}

SlotOrder == <<"d/a", "d/b", "e/c">>

NoSlot == "!"

ParentOf(p) == CASE p = "d/a" -> "d"
                 [] p = "d/b" -> "d"
                 [] p = "e/c" -> "e"
                 [] OTHER     -> "n"

ParentExists(p) == ParentOf(p) \in {"d", "e"}

Volume(p) == IF ParentOf(p) = "d" THEN "vol1" ELSE "vol2"

Absent == [k |-> "absent", ino |-> 0, to |-> "-"]

FileEnt(i) == [k |-> "file", ino |-> i, to |-> "-"]

DirEnt(i) == [k |-> "dir", ino |-> i, to |-> "-"]

LinkEnt(t) == [k |-> "link", ino |-> 0, to |-> t]

FreeInode == [data |-> 0, ro |-> FALSE]

Refs(fs, i) == {p \in Slots : fs.ent[p].k \in {"file", "dir"} /\ fs.ent[p].ino = i}

Min(S) == CHOOSE x \in S : \A y \in S : x <= y

FreshIno(fs) == Min({i \in Inodes : Refs(fs, i) = {}})

\* Path resolution: follow symbolic links; NoSlot is a link loop (ELOOP).
RECURSIVE Follow(_, _, _)
Follow(fs, p, fuel) ==
    IF fs.ent[p].k # "link" THEN p
    ELSE IF fuel = 0 THEN NoSlot
    ELSE Follow(fs, fs.ent[p].to, fuel - 1)

Resolve(fs, p) == Follow(fs, p, Cardinality(Slots))

\* Path::exists, Path::is_dir, Path::is_file: all follow symbolic links.
Exists(fs, p) ==
    LET t == Resolve(fs, p) IN t # NoSlot /\ fs.ent[t].k \in {"file", "dir"}

IsDir(fs, p) ==
    LET t == Resolve(fs, p) IN t # NoSlot /\ fs.ent[t].k = "dir"

IsFile(fs, p) ==
    LET t == Resolve(fs, p) IN t # NoSlot /\ fs.ent[t].k = "file"

\* fs::canonicalize: the resolved path of an existing entry, NoSlot for Err.
Canonicalize(fs, p) == IF Exists(fs, p) THEN Resolve(fs, p) ELSE NoSlot

\* fs::metadata(p).permissions().readonly() of an existing path.
ReadOnly(fs, p) == fs.ino[fs.ent[Resolve(fs, p)].ino].ro

\* The content read through a path ("none" when the path cannot be read).
ReadContent(fs, p) ==
    IF IsFile(fs, p) THEN fs.ino[fs.ent[Resolve(fs, p)].ino].data ELSE -1

\* Drop an inode no name refers to any more.
Reclaim(fs) ==
    [fs EXCEPT !.ino = [i \in Inodes |->
        IF Refs(fs, i) = {} THEN FreeInode ELSE fs.ino[i]]]

\* ------------------------------------------------------------------------
\* The std::fs primitives.  `fault` is TRUE when the environment makes the
\* call fail with an I/O error the filesystem state does not determine.
\* A primitive that fails leaves the filesystem as it found it.
\* ------------------------------------------------------------------------

Fail(fs, kind) == [ok |-> FALSE, fs |-> fs, kind |-> kind]

Done(fs) == [ok |-> TRUE, fs |-> fs, kind |-> "-"]

\* fs::remove_file: unlink(2), does not follow a symbolic link.
remove_file(fs, p, fault) ==
    IF fault \/ fs.ent[p].k \in {"absent", "dir"} THEN Fail(fs, "Other")
    ELSE Done(Reclaim([fs EXCEPT !.ent[p] = Absent]))

\* fs::rename: rename(2).
rename(fs, s, d, fault) ==
    IF fault \/ fs.ent[s].k = "absent" \/ ~ParentExists(d) THEN Fail(fs, "Other")
    ELSE IF Volume(s) # Volume(d) THEN Fail(fs, "CrossesDevices")
    ELSE IF fs.ent[d].k = "dir" THEN Fail(fs, "Other")
    ELSE IF s = d \/ (fs.ent[s].k = "file" /\ fs.ent[d] = fs.ent[s]) THEN Done(fs)
    ELSE Done(Reclaim([fs EXCEPT !.ent[d] = fs.ent[s], !.ent[s] = Absent]))

\* fs::copy: opens the source for reading and the destination with
\* O_CREAT | O_TRUNC (both follow symbolic links), copies the bytes and the
\* permission bits.
copy(fs, s, d, fault) ==
    LET t == Resolve(fs, d)
        si == fs.ent[Resolve(fs, s)].ino
    IN  IF fault \/ ~IsFile(fs, s) \/ t = NoSlot \/ ~ParentExists(t) THEN Fail(fs, "Other")
        ELSE IF fs.ent[t].k = "dir" THEN Fail(fs, "Other")
        ELSE IF fs.ent[t].k = "file" THEN
            LET di == fs.ent[t].ino IN
            IF fs.ino[di].ro THEN Fail(fs, "Other")
            ELSE IF di = si THEN Done([fs EXCEPT !.ino[di].data = 0])
            ELSE Done([fs EXCEPT !.ino[di] = fs.ino[si]])
        ELSE LET ni == FreshIno(fs) IN
            Done([fs EXCEPT !.ent[t] = FileEnt(ni), !.ino[ni] = fs.ino[si]])

\* fs::copy is not one system call.  It opens the source, opens the
\* destination with O_CREAT | O_TRUNC and gives it the source's permission
\* bits, and then writes the bytes through the two open files.  `from` and
\* `to` are the inodes of the open files.
Opened(fs, from, to) == [ok |-> TRUE, fs |-> fs, from |-> from, to |-> to]

NotOpened(fs) == [ok |-> FALSE, fs |-> fs, from |-> 0, to |-> 0]

\* Variant: the destination is opened with O_EXCL, an existing one is refused.
copy_open_excl(fs, s, d) ==
    LET t == Resolve(fs, d)
        si == fs.ent[Resolve(fs, s)].ino
    IN  IF ~IsFile(fs, s) \/ t = NoSlot \/ ~ParentExists(t) THEN NotOpened(fs)
        ELSE IF fs.ent[t].k # "absent" THEN NotOpened(fs)
        ELSE LET ni == FreshIno(fs) IN
            Opened([fs EXCEPT !.ent[t] = FileEnt(ni),
                              !.ino[ni] = [data |-> 0, ro |-> fs.ino[si].ro]], si, ni)

copy_open(fs, s, d) ==
    LET t == Resolve(fs, d)
        si == fs.ent[Resolve(fs, s)].ino
    IN  IF ~IsFile(fs, s) \/ t = NoSlot \/ ~ParentExists(t) THEN NotOpened(fs)
        ELSE IF fs.ent[t].k = "dir" THEN NotOpened(fs)
        ELSE IF fs.ent[t].k = "file" THEN
            LET di == fs.ent[t].ino IN
            IF fs.ino[di].ro THEN NotOpened(fs)
            ELSE Opened([fs EXCEPT !.ino[di] = [data |-> 0, ro |-> fs.ino[si].ro]], si, di)
        ELSE LET ni == FreshIno(fs) IN
            Opened([fs EXCEPT !.ent[t] = FileEnt(ni),
                              !.ino[ni] = [data |-> 0, ro |-> fs.ino[si].ro]], si, ni)

copy_write(fs, from, to) == [fs EXCEPT !.ino[to].data = fs.ino[from].data]

\* std::os::unix::fs::symlink: symlink(2), stores the source path.
symlink(fs, s, d, fault) ==
    IF fault \/ ~ParentExists(d) \/ fs.ent[d].k # "absent" THEN Fail(fs, "Other")
    ELSE Done([fs EXCEPT !.ent[d] = LinkEnt(s)])

\* fs::hard_link: linkat(2) without AT_SYMLINK_FOLLOW.
hard_link(fs, s, d, fault) ==
    IF fault \/ ~ParentExists(d) \/ fs.ent[d].k # "absent" THEN Fail(fs, "Other")
    ELSE IF fs.ent[s].k \in {"absent", "dir"} THEN Fail(fs, "Other")
    ELSE IF Volume(s) # Volume(d) THEN Fail(fs, "Other")
    ELSE Done([fs EXCEPT !.ent[d] = fs.ent[s]])

\* ------------------------------------------------------------------------
\* mv.rs
\* ------------------------------------------------------------------------

OkUnit == [tag |-> "Ok", path |-> "-"]

OkPath(p) == [tag |-> "Ok", path |-> p]

Err(tag, p) == [tag |-> tag, path |-> p]

IoErr == [tag |-> "Io", path |-> "-"]

Ret(fs, res, log) == [fs |-> fs, res |-> res, log |-> log]

validate_source(fs, path) ==
    IF ~Exists(fs, path) THEN Err("PathNotFound", path)
    ELSE IF IsDir(fs, path) THEN Err("NotAFile", path)
    ELSE OkUnit

\* Variant: the two paths are compared as written, not canonicalized.
validate_destination_literal(fs, source, dest, allow_overwrite) ==
    IF source = dest THEN Err("SameFile", dest)
    ELSE IF ~ParentExists(dest) THEN Err("PathNotFound", ParentOf(dest))
    ELSE IF Exists(fs, dest) /\ ~allow_overwrite THEN Err("FileAlreadyExists", dest)
    ELSE OkUnit

validate_destination(fs, source, dest, allow_overwrite) ==
    LET src_canon == Canonicalize(fs, source)
        dst_canon == Canonicalize(fs, dest)
    IN  IF src_canon # NoSlot /\ dst_canon # NoSlot /\ src_canon = dst_canon
            THEN Err("SameFile", dest)
        ELSE IF ~ParentExists(dest) THEN Err("PathNotFound", ParentOf(dest))
        ELSE IF Exists(fs, dest) /\ ~allow_overwrite THEN Err("FileAlreadyExists", dest)
        ELSE OkUnit

\* Variant: the read-only bit is never looked at.
validate_writable_skip(fs, path) == OkUnit

validate_writable(fs, path) ==
    IF Exists(fs, path) /\ ReadOnly(fs, path) THEN Err("PermissionError", path)
    ELSE OkUnit

copy_file(fs, src, dst, overwrite, fault) ==
    LET vs == validate_source(fs, src)
        vd == validate_destination(fs, src, dst, overwrite)
        vw == IF overwrite /\ Exists(fs, dst) THEN validate_writable(fs, dst) ELSE OkUnit
        cp == copy(fs, src, dst, fault = "copy")
    IN  IF vs.tag # "Ok" THEN Ret(fs, vs, <<>>)
        ELSE IF vd.tag # "Ok" THEN Ret(fs, vd, <<>>)
        ELSE IF vw.tag # "Ok" THEN Ret(fs, vw, <<>>)
        ELSE IF ~cp.ok THEN Ret(cp.fs, IoErr, <<"copy">>)
        ELSE Ret(cp.fs, OkPath(dst), <<"copy">>)

\* Variant of the rename match: every rename failure takes the fallback.
rename_or_fallback_any(f, src, dst, fault, l1) ==
    LET rn == rename(f, src, dst, fault = "rename")
        cp == copy(f, src, dst, fault = "copy")
        rs == remove_file(cp.fs, src, fault = "remove_src")
    IN  IF rn.ok THEN Ret(rn.fs, OkPath(dst), l1 \o <<"rename">>)
        ELSE IF ~cp.ok THEN Ret(cp.fs, IoErr, l1 \o <<"rename", "copy">>)
        ELSE IF ~rs.ok THEN Ret(rs.fs, IoErr, l1 \o <<"rename", "copy", "remove_src">>)
        ELSE Ret(rs.fs, OkPath(dst), l1 \o <<"rename", "copy", "remove_src">>)

\* Variant of the rename match: the fallback's deletion has no effect.
rename_or_fallback_keep(f, src, dst, fault, l1) ==
    LET rn == rename(f, src, dst, fault = "rename")
        cp == copy(f, src, dst, fault = "copy")
        rs == remove_file(cp.fs, src, fault = "remove_src")
    IN  IF rn.ok THEN Ret(rn.fs, OkPath(dst), l1 \o <<"rename">>)
        ELSE IF rn.kind = "CrossesDevices" THEN
            IF ~cp.ok THEN Ret(cp.fs, IoErr, l1 \o <<"rename", "copy">>)
            ELSE IF ~rs.ok THEN Ret(cp.fs, IoErr, l1 \o <<"rename", "copy", "remove_src">>)
            ELSE Ret(cp.fs, OkPath(dst), l1 \o <<"rename", "copy", "remove_src">>)
        ELSE Ret(rn.fs, IoErr, l1 \o <<"rename">>)

\* Variant of the rename match: the fallback deletes the source first.
rename_or_fallback_delete_first(f, src, dst, fault, l1) ==
    LET rn == rename(f, src, dst, fault = "rename")
        rs == remove_file(f, src, fault = "remove_src")
        cp == copy(rs.fs, src, dst, fault = "copy")
    IN  IF rn.ok THEN Ret(rn.fs, OkPath(dst), l1 \o <<"rename">>)
        ELSE IF rn.kind = "CrossesDevices" THEN
            IF ~rs.ok THEN Ret(rs.fs, IoErr, l1 \o <<"rename", "remove_src">>)
            ELSE IF ~cp.ok THEN Ret(cp.fs, IoErr, l1 \o <<"rename", "remove_src", "copy">>)
            ELSE Ret(cp.fs, OkPath(dst), l1 \o <<"rename", "remove_src", "copy">>)
        ELSE Ret(rn.fs, IoErr, l1 \o <<"rename">>)

\* The match on fs::rename's result: f is the filesystem the rename acts
\* on, l1 the primitives attempted before it.
rename_or_fallback(f, src, dst, fault, l1) ==
    LET rn == rename(f, src, dst, fault = "rename")
        cp == copy(f, src, dst, fault = "copy")
        rs == remove_file(cp.fs, src, fault = "remove_src")
    IN  IF rn.ok THEN Ret(rn.fs, OkPath(dst), l1 \o <<"rename">>)
        ELSE IF rn.kind = "CrossesDevices" THEN
            IF ~cp.ok THEN Ret(cp.fs, IoErr, l1 \o <<"rename", "copy">>)
            ELSE IF ~rs.ok THEN Ret(rs.fs, IoErr, l1 \o <<"rename", "copy", "remove_src">>)
            ELSE Ret(rs.fs, OkPath(dst), l1 \o <<"rename", "copy", "remove_src">>)
        ELSE Ret(rn.fs, IoErr, l1 \o <<"rename">>)

\* Variant: the destination is removed before it is checked for writability.
move_file_remove_first(fs, src, dst, overwrite, fault) ==
    LET vs == validate_source(fs, src)
        vd == validate_destination(fs, src, dst, overwrite)
        ow == overwrite /\ Exists(fs, dst)
        vw == IF ow THEN validate_writable(fs, dst) ELSE OkUnit
        rm == IF ow THEN remove_file(fs, dst, fault = "remove_dst") ELSE Done(fs)
        l1 == IF ow THEN <<"remove_dst">> ELSE <<>>
    IN  IF vs.tag # "Ok" THEN Ret(fs, vs, <<>>)
        ELSE IF vd.tag # "Ok" THEN Ret(fs, vd, <<>>)
        ELSE IF ~rm.ok THEN Ret(rm.fs, IoErr, l1)
        ELSE IF vw.tag # "Ok" THEN Ret(rm.fs, vw, l1)
        ELSE rename_or_fallback(rm.fs, src, dst, fault, l1)

move_file(fs, src, dst, overwrite, fault) ==
    LET vs == validate_source(fs, src)
        vd == validate_destination(fs, src, dst, overwrite)
        ow == overwrite /\ Exists(fs, dst)
        vw == IF ow THEN validate_writable(fs, dst) ELSE OkUnit
        rm == IF ow THEN remove_file(fs, dst, fault = "remove_dst") ELSE Done(fs)
        l1 == IF ow THEN <<"remove_dst">> ELSE <<>>
    IN  IF vs.tag # "Ok" THEN Ret(fs, vs, <<>>)
        ELSE IF vd.tag # "Ok" THEN Ret(fs, vd, <<>>)
        ELSE IF vw.tag # "Ok" THEN Ret(fs, vw, <<>>)
        ELSE IF ~rm.ok THEN Ret(rm.fs, IoErr, l1)
        ELSE rename_or_fallback(rm.fs, src, dst, fault, l1)

\* Variant: an existing destination is replaced whatever the overwrite flag.
symlink_file_clobber(fs, src, dst, overwrite, fault) ==
    LET vs == validate_source(fs, src)
        ex == Exists(fs, dst)
        vw == IF ex THEN validate_writable(fs, dst) ELSE OkUnit
        rm == IF ex THEN remove_file(fs, dst, fault = "remove_dst") ELSE Done(fs)
        l1 == IF ex THEN <<"remove_dst">> ELSE <<>>
        sl == symlink(rm.fs, src, dst, fault = "symlink")
    IN  IF vs.tag # "Ok" THEN Ret(fs, vs, <<>>)
        ELSE IF ~ParentExists(dst) THEN Ret(fs, Err("PathNotFound", ParentOf(dst)), <<>>)
        ELSE IF vw.tag # "Ok" THEN Ret(fs, vw, <<>>)
        ELSE IF ~rm.ok THEN Ret(rm.fs, IoErr, l1)
        ELSE IF ~sl.ok THEN Ret(sl.fs, IoErr, l1 \o <<"symlink">>)
        ELSE Ret(sl.fs, OkPath(dst), l1 \o <<"symlink">>)

symlink_file(fs, src, dst, overwrite, fault) ==
    LET vs == validate_source(fs, src)
        ex == Exists(fs, dst)
        vw == IF ex THEN validate_writable(fs, dst) ELSE OkUnit
        rm == IF ex THEN remove_file(fs, dst, fault = "remove_dst") ELSE Done(fs)
        l1 == IF ex THEN <<"remove_dst">> ELSE <<>>
        sl == symlink(rm.fs, src, dst, fault = "symlink")
    IN  IF vs.tag # "Ok" THEN Ret(fs, vs, <<>>)
        ELSE IF ~ParentExists(dst) THEN Ret(fs, Err("PathNotFound", ParentOf(dst)), <<>>)
        ELSE IF ex /\ ~overwrite THEN Ret(fs, Err("FileAlreadyExists", dst), <<>>)
        ELSE IF vw.tag # "Ok" THEN Ret(fs, vw, <<>>)
        ELSE IF ~rm.ok THEN Ret(rm.fs, IoErr, l1)
        ELSE IF ~sl.ok THEN Ret(sl.fs, IoErr, l1 \o <<"symlink">>)
        ELSE Ret(sl.fs, OkPath(dst), l1 \o <<"symlink">>)

\* Variant: a failed hard link leaves the filesystem as it was before the call.
hardlink_file_rollback(fs, src, dst, overwrite, fault) ==
    LET vs == validate_source(fs, src)
        ex == Exists(fs, dst)
        vw == IF ex THEN validate_writable(fs, dst) ELSE OkUnit
        rm == IF ex THEN remove_file(fs, dst, fault = "remove_dst") ELSE Done(fs)
        l1 == IF ex THEN <<"remove_dst">> ELSE <<>>
        hl == hard_link(rm.fs, src, dst, fault = "hard_link")
    IN  IF vs.tag # "Ok" THEN Ret(fs, vs, <<>>)
        ELSE IF ~ParentExists(dst) THEN Ret(fs, Err("PathNotFound", ParentOf(dst)), <<>>)
        ELSE IF ex /\ ~overwrite THEN Ret(fs, Err("FileAlreadyExists", dst), <<>>)
        ELSE IF vw.tag # "Ok" THEN Ret(fs, vw, <<>>)
        ELSE IF ~rm.ok THEN Ret(rm.fs, IoErr, l1)
        ELSE IF ~hl.ok THEN Ret(fs, IoErr, l1 \o <<"hard_link">>)
        ELSE Ret(hl.fs, OkPath(dst), l1 \o <<"hard_link">>)

\* Variant: the destination is made by fs::copy instead of fs::hard_link.
hardlink_file_copy(fs, src, dst, overwrite, fault) ==
    LET vs == validate_source(fs, src)
        ex == Exists(fs, dst)
        vw == IF ex THEN validate_writable(fs, dst) ELSE OkUnit
        rm == IF ex THEN remove_file(fs, dst, fault = "remove_dst") ELSE Done(fs)
        l1 == IF ex THEN <<"remove_dst">> ELSE <<>>
        hl == copy(rm.fs, src, dst, fault = "hard_link")
    IN  IF vs.tag # "Ok" THEN Ret(fs, vs, <<>>)
        ELSE IF ~ParentExists(dst) THEN Ret(fs, Err("PathNotFound", ParentOf(dst)), <<>>)
        ELSE IF ex /\ ~overwrite THEN Ret(fs, Err("FileAlreadyExists", dst), <<>>)
        ELSE IF vw.tag # "Ok" THEN Ret(fs, vw, <<>>)
        ELSE IF ~rm.ok THEN Ret(rm.fs, IoErr, l1)
        ELSE IF ~hl.ok THEN Ret(hl.fs, IoErr, l1 \o <<"hard_link">>)
        ELSE Ret(hl.fs, OkPath(dst), l1 \o <<"hard_link">>)

hardlink_file(fs, src, dst, overwrite, fault) ==
    LET vs == validate_source(fs, src)
        ex == Exists(fs, dst)
        vw == IF ex THEN validate_writable(fs, dst) ELSE OkUnit
        rm == IF ex THEN remove_file(fs, dst, fault = "remove_dst") ELSE Done(fs)
        l1 == IF ex THEN <<"remove_dst">> ELSE <<>>
        hl == hard_link(rm.fs, src, dst, fault = "hard_link")
    IN  IF vs.tag # "Ok" THEN Ret(fs, vs, <<>>)
        ELSE IF ~ParentExists(dst) THEN Ret(fs, Err("PathNotFound", ParentOf(dst)), <<>>)
        ELSE IF ex /\ ~overwrite THEN Ret(fs, Err("FileAlreadyExists", dst), <<>>)
        ELSE IF vw.tag # "Ok" THEN Ret(fs, vw, <<>>)
        ELSE IF ~rm.ok THEN Ret(rm.fs, IoErr, l1)
        ELSE IF ~hl.ok THEN Ret(hl.fs, IoErr, l1 \o <<"hard_link">>)
        ELSE Ret(hl.fs, OkPath(dst), l1 \o <<"hard_link">>)

TransferMode == {"Copy", "Move", "Symlink", "Hardlink"}

\* Variant: two arms of the match are exchanged.
transfer_file_swapped(fs, source, dest, mode, overwrite, fault) ==
    CASE mode = "Copy"     -> copy_file(fs, source, dest, overwrite, fault)
      [] mode = "Move"     -> move_file(fs, source, dest, overwrite, fault)
      [] mode = "Symlink"  -> hardlink_file(fs, source, dest, overwrite, fault)
      [] mode = "Hardlink" -> symlink_file(fs, source, dest, overwrite, fault)

transfer_file(fs, source, dest, mode, overwrite, fault) ==
    CASE mode = "Copy"     -> copy_file(fs, source, dest, overwrite, fault)
      [] mode = "Move"     -> move_file(fs, source, dest, overwrite, fault)
      [] mode = "Symlink"  -> symlink_file(fs, source, dest, overwrite, fault)
      [] mode = "Hardlink" -> hardlink_file(fs, source, dest, overwrite, fault)

\* ------------------------------------------------------------------------
\* The directory tree the traversal engine walks.
\*
\* "r" is a directory with the entries a, s, b (in the order the directory
\* enumeration yields them); "r/s" is a sub-directory with the entry c.
\* "x" and "l" are two further top-level paths.  A directory may be
\* unreadable (opening it for enumeration fails).
\* ------------------------------------------------------------------------

WNodes == {"r", "r/a", "r/s", "r/b", "r/s/c", "x", "l"}

Children(n) == CASE n = "r"   -> <<"r/a", "r/s", "r/b">>
                 [] n = "r/s" -> <<"r/s/c">>
                 [] OTHER     -> <<>>

WParent(n) == CASE n \in {"r/a", "r/s", "r/b"} -> "r"
                [] n = "r/s/c" -> "r/s"
                [] OTHER -> "/"

TNode(k, to, rd) == [k |-> k, to |-> to, rd |-> rd]

TAbsent == TNode("absent", "-", TRUE)

\* The paths that can be regular files below "r", and the file names they
\* may carry: a stem and an extension (NoExt: Path::extension is None).
FileNodes == {"r/a", "r/s", "r/b", "r/s/c"}

NoExt == "<none>"

FName(stem, ext) == [stem |-> stem, ext |-> ext]

Names == {FName("song", "flac"), FName("song", "FLAC"),
          FName("readme", "txt"), FName("song", NoExt)}

DefaultName == FName("song", "flac")

RECURSIVE WFollow(_, _, _)
WFollow(tree, p, fuel) ==
    IF tree[p].k # "link" THEN p
    ELSE IF fuel = 0 \/ tree[p].to \notin WNodes THEN NoSlot
    ELSE WFollow(tree, tree[p].to, fuel - 1)

WResolve(tree, p) == WFollow(tree, p, Cardinality(WNodes))

\* Path::exists and Path::is_file on the tree (both follow symbolic links).
WExists(tree, p) ==
    LET t == WResolve(tree, p) IN t # NoSlot /\ tree[t].k \in {"file", "dir"}

WIsFile(tree, p) ==
    LET t == WResolve(tree, p) IN t # NoSlot /\ tree[t].k = "file"

WIsDir(tree, p) ==
    LET t == WResolve(tree, p) IN t # NoSlot /\ tree[t].k = "dir"

\* The entries a directory enumeration yields: the children that exist.
RECURSIVE Present(_, _)
Present(tree, cs) ==
    IF cs = <<>> THEN <<>>
    ELSE IF tree[Head(cs)].k = "absent" THEN Present(tree, Tail(cs))
    ELSE <<[t |-> "visit", p |-> Head(cs), depth |-> 1]>> \o Present(tree, Tail(cs))

\* walkdir::IntoIter::next with the default options (symbolic links are not
\* followed, except at the root).  The iterator state is the list of
\* pending entries, depth first.  An entry is reported before the directory
\* below it is enumerated; a directory that cannot be opened reports one
\* error in place of its entries.
NoItem == [tag |-> "None", path |-> "-", ftype |-> "-"]

InnerNext(tree, todo) ==
    IF todo = <<>> THEN [item |-> NoItem, todo |-> <<>>]
    ELSE LET h == Head(todo)
             n == IF h.depth = 0 THEN WResolve(tree, h.p) ELSE h.p
             descend == IF tree[n].k # "dir" THEN <<>>
                        ELSE IF tree[n].rd THEN Present(tree, Children(n))
                        ELSE <<[t |-> "err", p |-> n, depth |-> 1]>>
         IN  IF h.t = "err"
             THEN [item |-> [tag |-> "WalkDir", path |-> h.p, ftype |-> "-"],
                   todo |-> Tail(todo)]
             ELSE [item |-> [tag |-> "Ok", path |-> h.p, ftype |-> tree[h.p].k],
                   todo |-> descend \o Tail(todo)]

\* ------------------------------------------------------------------------
\* fd.rs
\* ------------------------------------------------------------------------

WRet(r, todo, probes) == [res |-> r, todo |-> todo, probes |-> probes]

Start(path) == <<[t |-> "visit", p |-> path, depth |-> 0]>>

walkdir(tree, path) ==
    IF ~WExists(tree, path)
        THEN WRet(Err("PathNotFound", path), <<>>, <<"exists">>)
    ELSE IF WIsFile(tree, path)
        THEN WRet(Err("NotADirectory", path), <<>>, <<"exists", "is_file">>)
    ELSE WRet(OkUnit, Start(path), <<"exists", "is_file">>)

\* Variant: the lenient walk does not check that the root is a directory.
walkdir_lenient_unchecked(tree, path) ==
    IF ~WExists(tree, path)
        THEN WRet(Err("PathNotFound", path), <<>>, <<"exists">>)
    ELSE WRet(OkUnit, Start(path), <<"exists">>)

walkdir_lenient(tree, path) ==
    IF ~WExists(tree, path)
        THEN WRet(Err("PathNotFound", path), <<>>, <<"exists">>)
    ELSE IF WIsFile(tree, path)
        THEN WRet(Err("NotADirectory", path), <<>>, <<"exists", "is_file">>)
    ELSE WRet(OkUnit, Start(path), <<"exists", "is_file">>)

\* Variant: after an error element the rest of the traversal is dropped.
RECURSIVE walkdir_next_abort(_, _)
walkdir_next_abort(tree, todo) ==
    LET r == InnerNext(tree, todo)
    IN  IF r.item.tag = "None" THEN r
        ELSE IF r.item.tag = "WalkDir" THEN [item |-> r.item, todo |-> <<>>]
        ELSE IF r.item.ftype = "file" THEN r
        ELSE walkdir_next_abort(tree, r.todo)

\* next() of the iterator walkdir returns: the filter_map closure.
RECURSIVE walkdir_next(_, _)
walkdir_next(tree, todo) ==
    LET r == InnerNext(tree, todo)
    IN  IF r.item.tag = "None" THEN r
        ELSE IF r.item.tag = "WalkDir" THEN r
        ELSE IF r.item.ftype = "file" THEN r
        ELSE walkdir_next(tree, r.todo)

\* next() of the iterator walkdir_lenient returns: filter_map(ok), filter, map.
RECURSIVE walkdir_lenient_next(_, _)
walkdir_lenient_next(tree, todo) ==
    LET r == InnerNext(tree, todo)
    IN  IF r.item.tag = "None" THEN r
        ELSE IF r.item.tag = "WalkDir" THEN walkdir_lenient_next(tree, r.todo)
        ELSE IF r.item.ftype = "file" THEN r
        ELSE walkdir_lenient_next(tree, r.todo)

\* Path::file_name and Path::extension of a yielded path.
file_name(names, p) == names[p]

extension(names, p) == names[p].ext

FRet(r, val, todo, pulled, done) ==
    [res |-> r, val |-> val, todo |-> todo, pulled |-> pulled, done |-> done]

\* Variant: an error element is skipped instead of being returned.
RECURSIVE find_match_one_loop_lenient(_, _, _, _, _)
find_match_one_loop_lenient(tree, names, todo, target_file, pulled) ==
    LET r == walkdir_next(tree, todo)
        it == [tag |-> r.item.tag, path |-> r.item.path]
    IN  IF r.item.tag = "None" THEN FRet(OkUnit, <<>>, r.todo, pulled, TRUE)
        ELSE IF r.item.tag = "Ok"
                /\ file_name(names, r.item.path) = target_file
                /\ extension(names, r.item.path) = target_file.ext
            THEN FRet(OkUnit, <<r.item.path>>, r.todo, Append(pulled, it), FALSE)
        ELSE find_match_one_loop_lenient(tree, names, r.todo, target_file,
                                         Append(pulled, it))

\* The loop of find_match_one over the strict walk: `pulled` is what it has
\* taken from the iterator so far.
RECURSIVE find_match_one_loop(_, _, _, _, _)
find_match_one_loop(tree, names, todo, target_file, pulled) ==
    LET r == walkdir_next(tree, todo)
        it == [tag |-> r.item.tag, path |-> r.item.path]
    IN  IF r.item.tag = "None" THEN FRet(OkUnit, <<>>, r.todo, pulled, TRUE)
        ELSE IF r.item.tag = "WalkDir"
            THEN FRet(Err("WalkDir", r.item.path), <<>>, r.todo, Append(pulled, it), FALSE)
        ELSE IF /\ file_name(names, r.item.path) = target_file
                /\ extension(names, r.item.path) = target_file.ext
            THEN FRet(OkUnit, <<r.item.path>>, r.todo, Append(pulled, it), FALSE)
        ELSE find_match_one_loop(tree, names, r.todo, target_file, Append(pulled, it))

\* The result value is Option<PathBuf>: <<>> for None, <<p>> for Some(p).
find_match_one(tree, names, search_path, target_file) ==
    LET w == walkdir(tree, search_path)
    IN  IF w.res.tag # "Ok" THEN FRet(w.res, <<>>, <<>>, <<>>, FALSE)
        ELSE find_match_one_loop(tree, names, w.todo, target_file, <<>>)

RECURSIVE find_match_all_loop(_, _, _, _, _, _)
find_match_all_loop(tree, names, todo, target_file, pulled, matches) ==
    LET r == walkdir_next(tree, todo)
        it == [tag |-> r.item.tag, path |-> r.item.path]
    IN  IF r.item.tag = "None" THEN FRet(OkUnit, matches, r.todo, pulled, TRUE)
        ELSE IF r.item.tag = "WalkDir"
            THEN FRet(Err("WalkDir", r.item.path), <<>>, r.todo, Append(pulled, it), FALSE)
        ELSE IF /\ file_name(names, r.item.path) = target_file
                /\ extension(names, r.item.path) = target_file.ext
            THEN find_match_all_loop(tree, names, r.todo, target_file,
                                     Append(pulled, it), Append(matches, r.item.path))
        ELSE find_match_all_loop(tree, names, r.todo, target_file,
                                 Append(pulled, it), matches)

find_match_all(tree, names, search_path, target_file) ==
    LET w == walkdir(tree, search_path)
    IN  IF w.res.tag # "Ok" THEN FRet(w.res, <<>>, <<>>, <<>>, FALSE)
        ELSE find_match_all_loop(tree, names, w.todo, target_file, <<>>, <<>>)

AUDIO_EXTS == {"flac", "mp3", "m4a", "ogg", "opus", "wav", "aac", "wma"}

\* str::to_lowercase on the extensions of Names.
to_lowercase(e) ==
    CASE e = "FLAC" -> "flac"
      [] e = "flac" -> "flac"
      [] e = "txt"  -> "txt"
      [] OTHER      -> e

\* Variant: the extension is compared as written.
RECURSIVE find_audio_files_loop_exact(_, _, _, _, _)
find_audio_files_loop_exact(tree, names, todo, pulled, matches) ==
    LET r == walkdir_lenient_next(tree, todo)
        it == [tag |-> r.item.tag, path |-> r.item.path]
        ext == extension(names, r.item.path)
    IN  IF r.item.tag = "None" THEN FRet(OkUnit, matches, r.todo, pulled, TRUE)
        ELSE IF ext # NoExt /\ ext \in AUDIO_EXTS
            THEN find_audio_files_loop_exact(tree, names, r.todo, Append(pulled, it),
                                             Append(matches, r.item.path))
        ELSE find_audio_files_loop_exact(tree, names, r.todo, Append(pulled, it), matches)

RECURSIVE find_audio_files_loop(_, _, _, _, _)
find_audio_files_loop(tree, names, todo, pulled, matches) ==
    LET r == walkdir_lenient_next(tree, todo)
        it == [tag |-> r.item.tag, path |-> r.item.path]
        ext == extension(names, r.item.path)
    IN  IF r.item.tag = "None" THEN FRet(OkUnit, matches, r.todo, pulled, TRUE)
        ELSE IF ext # NoExt /\ to_lowercase(ext) \in AUDIO_EXTS
            THEN find_audio_files_loop(tree, names, r.todo, Append(pulled, it),
                                       Append(matches, r.item.path))
        ELSE find_audio_files_loop(tree, names, r.todo, Append(pulled, it), matches)

find_audio_files(tree, names, search_path) ==
    LET w == walkdir_lenient(tree, search_path)
    IN  IF w.res.tag # "Ok" THEN FRet(w.res, <<>>, <<>>, <<>>, FALSE)
        ELSE find_audio_files_loop(tree, names, w.todo, <<>>, <<>>)

\* ------------------------------------------------------------------------
\* State: the filesystem, and the record of the one transfer call made on
\* it (its arguments, its result, the primitives it attempted, and the
\* filesystem as it was before the call).
\* ------------------------------------------------------------------------

VARIABLES fs, pre, call, res, log

VARIABLES tree, wcall, wres, probes, todo, out, exhausted

VARIABLES procs, cdst, wrote

VARIABLES names, target, found

tvars == <<fs, pre, call, res, log>>

wvars == <<tree, wcall, wres, probes, todo, out, exhausted, names, target, found>>

cvars == <<procs, cdst, wrote>>

vars == <<fs, pre, call, res, log, tree, wcall, wres, probes, todo, out, exhausted,
         names, target, found, procs, cdst, wrote>>

NoCall == [op |-> "none", src |-> "-", dst |-> "-", overwrite |-> FALSE,
           fault |-> "none", via |-> "-"]

\* Inode numbers are handed out in path order, each inode holds its own
\* content, and an unused inode is blank.
WellFormed(f) ==
    /\ \A i \in Inodes :
        IF Refs(f, i) = {} THEN f.ino[i] = FreeInode ELSE f.ino[i].data = i
    /\ \A i \in Inodes : Refs(f, i) # {} => \A j \in 1..(i - 1) : Refs(f, j) # {}
    /\ \A i, j \in Inodes :
        (i < j /\ Refs(f, j) # {}) =>
            \E n \in 1..Len(SlotOrder) :
                /\ SlotOrder[n] \in Refs(f, i)
                /\ \A m \in 1..n : SlotOrder[m] \notin Refs(f, j)
    /\ \A i \in Inodes : \A p, q \in Refs(f, i) : f.ent[p].k = f.ent[q].k
    /\ \A i \in Inodes : \A p, q \in Refs(f, i) : f.ent[p].k = "dir" => p = q
    /\ \A i \in Inodes : \A p, q \in Refs(f, i) : Volume(p) = Volume(q)

Entries ==
    {Absent} \cup {FileEnt(i) : i \in Inodes} \cup {DirEnt(i) : i \in Inodes}
             \cup {LinkEnt(t) : t \in LiveSlots}

MkFs(e, r) ==
    LET f0 == [ent |-> e, ino |-> [i \in Inodes |-> FreeInode]]
    IN  [ent |-> e,
         ino |-> [i \in Inodes |->
                    IF Refs(f0, i) = {} THEN FreeInode ELSE [data |-> i, ro |-> r[i]]]]

InitFs ==
    {f \in {MkFs(e, r) : e \in {x \in [Slots -> Entries] : x["n/x"] = Absent},
                         r \in [Inodes -> BOOLEAN]} : WellFormed(f)}

TInit ==
    /\ pre = fs
    /\ call = NoCall
    /\ res = OkUnit
    /\ log = <<>>

FaultsOf(op) ==
    CASE op = "copy_file"     -> {"none", "copy"}
      [] op = "move_file"     -> {"none", "remove_dst", "rename", "copy", "remove_src"}
      [] op = "symlink_file"  -> {"none", "remove_dst", "symlink"}
      [] op = "hardlink_file" -> {"none", "remove_dst", "hard_link"}

Apply(op, via, src, dst, overwrite, fault, r) ==
    /\ pre' = fs
    /\ call' = [op |-> op, src |-> src, dst |-> dst, overwrite |-> overwrite,
                fault |-> fault, via |-> via]
    /\ fs' = r.fs
    /\ res' = r.res
    /\ log' = r.log
    /\ UNCHANGED wvars
    /\ UNCHANGED cvars

CopyFile ==
    /\ call = NoCall
    /\ \E src, dst \in Slots, overwrite \in BOOLEAN, fault \in FaultsOf("copy_file") :
        Apply("copy_file", "direct", src, dst, overwrite, fault,
              copy_file(fs, src, dst, overwrite, fault))

MoveFile ==
    /\ call = NoCall
    /\ \E src, dst \in Slots, overwrite \in BOOLEAN, fault \in FaultsOf("move_file") :
        Apply("move_file", "direct", src, dst, overwrite, fault,
              move_file(fs, src, dst, overwrite, fault))

SymlinkFile ==
    /\ call = NoCall
    /\ \E src, dst \in Slots, overwrite \in BOOLEAN, fault \in FaultsOf("symlink_file") :
        Apply("symlink_file", "direct", src, dst, overwrite, fault,
              symlink_file(fs, src, dst, overwrite, fault))

HardlinkFile ==
    /\ call = NoCall
    /\ \E src, dst \in Slots, overwrite \in BOOLEAN, fault \in FaultsOf("hardlink_file") :
        Apply("hardlink_file", "direct", src, dst, overwrite, fault,
              hardlink_file(fs, src, dst, overwrite, fault))

OpOf(mode) ==
    CASE mode = "Copy"     -> "copy_file"
      [] mode = "Move"     -> "move_file"
      [] mode = "Symlink"  -> "symlink_file"
      [] mode = "Hardlink" -> "hardlink_file"

TransferFile ==
    /\ call = NoCall
    /\ \E src, dst \in Slots, mode \in TransferMode, overwrite \in BOOLEAN :
        \E fault \in FaultsOf(OpOf(mode)) :
            Apply(OpOf(mode), mode, src, dst, overwrite, fault,
                  transfer_file(fs, src, dst, mode, overwrite, fault))

\* ------------------------------------------------------------------------
\* State of a traversal: the tree, the one walk call made on it (its result
\* and the pre-flight checks it made), the iterator it returned, and what
\* the caller has pulled from the iterator so far.
\* ------------------------------------------------------------------------

NoWCall == [fn |-> "none", root |-> "-"]

\* What each path may initially be.  A symbolic link inside the tree is
\* never followed; the top-level link "l" may point at "r", at "x" or at
\* itself.  Nothing exists below a path that is not a directory.
Choices(n) ==
    CASE n = "r"   -> {TAbsent, TNode("file", "-", TRUE),
                       TNode("dir", "-", TRUE), TNode("dir", "-", FALSE)}
      [] n = "r/s" -> {TAbsent, TNode("file", "-", TRUE), TNode("link", "x", TRUE),
                       TNode("dir", "-", TRUE), TNode("dir", "-", FALSE)}
      [] n = "x"   -> {TAbsent, TNode("file", "-", TRUE)}
      [] n = "l"   -> {TAbsent} \cup {TNode("link", t, TRUE) : t \in {"r", "x", "l"}}
      [] OTHER     -> {TAbsent, TNode("file", "-", TRUE), TNode("link", "x", TRUE)}

TreeOK(tr) ==
    \A n \in WNodes :
        WParent(n) # "/" /\ tr[WParent(n)].k # "dir" => tr[n].k = "absent"

InitTrees ==
    {tr \in {[n \in WNodes |-> CASE n = "r" -> vr [] n = "r/a" -> va
                                  [] n = "r/s" -> vs [] n = "r/b" -> vb
                                  [] n = "r/s/c" -> vc [] n = "x" -> vx
                                  [] n = "l" -> vl] :
                vr \in Choices("r"), va \in Choices("r/a"), vs \in Choices("r/s"),
                vb \in Choices("r/b"), vc \in Choices("r/s/c"), vx \in Choices("x"),
                vl \in Choices("l")} : TreeOK(tr)}

FixedTree ==
    [n \in WNodes |-> IF n = "r" THEN TNode("dir", "-", TRUE) ELSE TAbsent]

FixedFs ==
    [ent |-> [p \in Slots |-> Absent], ino |-> [i \in Inodes |-> FreeInode]]

WIdle ==
    /\ wcall = NoWCall
    /\ wres = OkUnit
    /\ probes = <<>>
    /\ todo = <<>>
    /\ out = <<>>
    /\ exhausted = FALSE
    /\ target = DefaultName
    /\ found = <<>>

\* The file names of a tree: two files of one directory differ in name; a
\* path that is no regular file gets the default name (it is never read).
InitNames(tr) ==
    {nm \in [FileNodes -> Names] :
        /\ \A n \in FileNodes : tr[n].k # "file" => nm[n] = DefaultName
        /\ \A n, m \in {"r/a", "r/s", "r/b"} :
            (n # m /\ tr[n].k = "file" /\ tr[m].k = "file") => nm[n] # nm[m]}

\* Two callers of copy_file(src, dst, false) on one filesystem.  A caller
\* is at a line of copy_file: 73 (validate_source), 74
\* (validate_destination), 80 (fs::copy, when it opens the files and when it
\* writes), or it has returned.
Procs == {"p", "q"}

NoProc == [pc |-> "returned", src |-> "-", res |-> OkUnit, seen |-> "-", from |-> 0, to |-> 0]

NewProc(src) == [pc |-> "l73", src |-> src, res |-> OkUnit, seen |-> "-", from |-> 0, to |-> 0]

CIdle ==
    /\ procs = [c \in Procs |-> NoProc]
    /\ cdst = "-"
    /\ wrote = <<>>

Init ==
    /\ fs \in InitFs
    /\ TInit
    /\ tree = FixedTree
    /\ names = [n \in FileNodes |-> DefaultName]
    /\ WIdle
    /\ CIdle

WInit ==
    /\ tree \in InitTrees
    /\ names \in InitNames(tree)
    /\ WIdle
    /\ fs = FixedFs
    /\ TInit
    /\ CIdle

WCall(fn, root, r) ==
    /\ wcall' = [fn |-> fn, root |-> root]
    /\ wres' = r.res
    /\ probes' = r.probes
    /\ todo' = r.todo
    /\ UNCHANGED <<tree, out, exhausted, names, target, found>>
    /\ UNCHANGED tvars
    /\ UNCHANGED cvars

Walkdir ==
    /\ wcall = NoWCall
    /\ \E root \in WNodes : WCall("walkdir", root, walkdir(tree, root))

WalkdirLenient ==
    /\ wcall = NoWCall
    /\ \E root \in WNodes : WCall("walkdir_lenient", root, walkdir_lenient(tree, root))

\* The caller pulls the next element of the returned sequence.
IterNext ==
    /\ wcall.fn \in {"walkdir", "walkdir_lenient"}
    /\ wres.tag = "Ok"
    /\ ~exhausted
    /\ LET r == IF wcall.fn = "walkdir" THEN walkdir_next(tree, todo)
                ELSE walkdir_lenient_next(tree, todo)
       IN  /\ todo' = r.todo
           /\ IF r.item.tag = "None"
                THEN exhausted' = TRUE /\ out' = out
                ELSE exhausted' = FALSE
                     /\ out' = Append(out, [tag |-> r.item.tag, path |-> r.item.path])
    /\ UNCHANGED <<tree, wcall, wres, probes, names, target, found>>
    /\ UNCHANGED tvars
    /\ UNCHANGED cvars

\* A find call runs to its return: what it pulled from the walk, the state
\* it left the iterator in, and its result.
FCall(fn, root, tgt, r) ==
    /\ wcall' = [fn |-> fn, root |-> root]
    /\ target' = tgt
    /\ wres' = r.res
    /\ found' = r.val
    /\ todo' = r.todo
    /\ out' = r.pulled
    /\ exhausted' = r.done
    /\ UNCHANGED <<tree, names, probes>>
    /\ UNCHANGED tvars
    /\ UNCHANGED cvars

FindMatchOne ==
    /\ wcall = NoWCall
    /\ \E root \in WNodes, tgt \in Names :
        FCall("find_match_one", root, tgt, find_match_one(tree, names, root, tgt))

FindMatchAll ==
    /\ wcall = NoWCall
    /\ \E root \in WNodes, tgt \in Names :
        FCall("find_match_all", root, tgt, find_match_all(tree, names, root, tgt))

FindAudioFiles ==
    /\ wcall = NoWCall
    /\ \E root \in WNodes :
        FCall("find_audio_files", root, DefaultName, find_audio_files(tree, names, root))

CInit ==
    /\ fs \in InitFs
    /\ TInit
    /\ tree = FixedTree
    /\ names = [n \in FileNodes |-> DefaultName]
    /\ WIdle
    /\ procs \in {[c \in Procs |-> NewProc(a[c])] : a \in [Procs -> Slots]}
    /\ cdst \in Slots
    /\ wrote = <<>>

Return(c, r) == [procs EXCEPT ![c].pc = "returned", ![c].res = r]

\* validate_source(src)?
CValidateSource ==
    \E c \in Procs :
        /\ procs[c].pc = "l73"
        /\ LET vs == validate_source(fs, procs[c].src)
           IN  procs' = IF vs.tag = "Ok" THEN [procs EXCEPT ![c].pc = "l74"]
                        ELSE Return(c, vs)
        /\ UNCHANGED <<fs, cdst, wrote>>
        /\ UNCHANGED <<pre, call, res, log>>
        /\ UNCHANGED wvars

\* validate_destination(src, dst, overwrite)? with overwrite = false, which
\* also skips the writability check of line 76.
CValidateDestination ==
    \E c \in Procs :
        /\ procs[c].pc = "l74"
        /\ LET vd == validate_destination(fs, procs[c].src, cdst, FALSE)
               at == [procs EXCEPT ![c].seen = IF Exists(fs, cdst) THEN "yes" ELSE "no"]
           IN  procs' = IF vd.tag = "Ok" THEN [at EXCEPT ![c].pc = "l80"]
                        ELSE [at EXCEPT ![c].pc = "returned", ![c].res = vd]
        /\ UNCHANGED <<fs, cdst, wrote>>
        /\ UNCHANGED <<pre, call, res, log>>
        /\ UNCHANGED wvars

\* fs::copy(src, dst)?: the two files are opened.
CCopyOpen ==
    \E c \in Procs :
        /\ procs[c].pc = "l80"
        /\ LET o == copy_open(fs, procs[c].src, cdst)
           IN  /\ fs' = o.fs
               /\ procs' = IF o.ok
                           THEN [procs EXCEPT ![c].pc = "l80w", ![c].from = o.from,
                                              ![c].to = o.to]
                           ELSE Return(c, IoErr)
        /\ UNCHANGED <<cdst, wrote>>
        /\ UNCHANGED <<pre, call, res, log>>
        /\ UNCHANGED wvars

\* fs::copy(src, dst)?: the bytes are written, then Ok(dst.to_path_buf()).
CCopyWrite ==
    \E c \in Procs :
        /\ procs[c].pc = "l80w"
        /\ fs' = copy_write(fs, procs[c].from, procs[c].to)
        /\ wrote' = Append(wrote, c)
        /\ procs' = Return(c, OkPath(cdst))
        /\ UNCHANGED cdst
        /\ UNCHANGED <<pre, call, res, log>>
        /\ UNCHANGED wvars

CNext == CValidateSource \/ CValidateDestination \/ CCopyOpen \/ CCopyWrite

ConcSpec == CInit /\ [][CNext]_vars

Next == CopyFile \/ MoveFile \/ SymlinkFile \/ HardlinkFile \/ TransferFile

WNext == Walkdir \/ WalkdirLenient \/ IterNext \/ FindMatchOne \/ FindMatchAll
         \/ FindAudioFiles

Spec == Init /\ [][Next]_vars

WalkSpec == WInit /\ [][WNext]_vars

TypeOK ==
    /\ call.op \in {"none", "copy_file", "move_file", "symlink_file", "hardlink_file"}
    /\ res.tag \in {"Ok", "Io", "PathNotFound", "FileAlreadyExists", "SameFile",
                    "PermissionError", "NotAFile"}
    /\ wres.tag \in {"Ok", "PathNotFound", "NotADirectory", "WalkDir"}

\* ------------------------------------------------------------------------
\* Properties of the transfer engine (checked under Spec).
\* ------------------------------------------------------------------------

Called == call.op # "none"

ValidationErrors ==
    {"PathNotFound", "NotAFile", "SameFile", "FileAlreadyExists", "PermissionError"}

SameEntity(f, s, d) ==
    Canonicalize(f, s) # NoSlot /\ Canonicalize(f, s) = Canonicalize(f, d)

\* C1: when any of the four operations returns a validation error
\* (PathNotFound, NotAFile, SameFile, FileAlreadyExists, PermissionError),
\* the source and destination entries and their content are as before the
\* call, and no removal, rename, copy or link was attempted.
C1_ValidationErrorLeavesStateUntouched ==
    (Called /\ res.tag \in ValidationErrors) =>
        /\ fs.ent[call.src] = pre.ent[call.src]
        /\ fs.ent[call.dst] = pre.ent[call.dst]
        /\ fs = pre
        /\ log = <<>>

\* A move onto an existing read-only destination with overwrite requested:
\* the last validation stage fails, right before the removal.
C1_Witness ==
    /\ call.op = "move_file"
    /\ call.overwrite
    /\ res.tag = "PermissionError"
    /\ pre.ent[call.dst].k = "file"
    /\ pre.ent[call.src].k = "file"

\* C2: move_file and copy_file on an existing regular source whose
\* destination canonicalizes to the same entity fail with SameFile for
\* either overwrite flag, and the file is still there with its content.
C2_SameFileDetected ==
    (/\ call.op \in {"move_file", "copy_file"}
     /\ IsFile(pre, call.src)
     /\ SameEntity(pre, call.src, call.dst)) =>
        /\ res = Err("SameFile", call.dst)
        /\ fs = pre
        /\ IsFile(fs, call.src)
        /\ ReadContent(fs, call.src) = ReadContent(pre, call.src)

\* The destination is a symbolic link resolving to the source, overwrite set.
C2_Witness ==
    /\ call.op = "move_file"
    /\ call.overwrite
    /\ pre.ent[call.src].k = "file"
    /\ pre.ent[call.dst] = LinkEnt(call.src)
    /\ res.tag = "SameFile"

\* C3: symlink_file and hardlink_file validate like copy and move: called
\* with overwrite = true on a writable regular file as both source and
\* destination (the same entity), they fail with SameFile and the file
\* still exists after the call.
C3_LinkOpsDetectSameFile ==
    (/\ call.op \in {"symlink_file", "hardlink_file"}
     /\ call.overwrite
     /\ call.fault = "none"
     /\ IsFile(pre, call.src)
     /\ ~ReadOnly(pre, call.src)
     /\ SameEntity(pre, call.src, call.dst)) =>
        /\ res.tag = "SameFile"
        /\ IsFile(fs, call.src)
        /\ ReadContent(fs, call.src) = ReadContent(pre, call.src)

\* C4: each operation, given an existing regular source, a destination
\* that exists as a different entity under an existing parent, and
\* overwrite = false, fails with FileAlreadyExists(destination) and
\* changes nothing.
C4_NoOverwriteKeepsDestination ==
    (/\ Called
     /\ IsFile(pre, call.src)
     /\ Exists(pre, call.dst)
     /\ ~SameEntity(pre, call.src, call.dst)
     /\ ParentExists(call.dst)
     /\ ~call.overwrite) =>
        /\ res = Err("FileAlreadyExists", call.dst)
        /\ fs = pre
        /\ log = <<>>

\* A hard link requested onto an existing other file, without overwrite.
C4_Witness ==
    /\ call.op = "hardlink_file"
    /\ ~call.overwrite
    /\ pre.ent[call.src].k = "file"
    /\ pre.ent[call.dst].k = "file"
    /\ pre.ent[call.dst].ino # pre.ent[call.src].ino
    /\ res.tag = "FileAlreadyExists"

\* C5: a successful move_file of an existing regular source onto a
\* destination that does not exist, or exists writable as a different
\* entity with overwrite set, returns the destination path, leaves no
\* entry at the source path, and the destination reads the source's
\* original content; by rename and by the cross-device fallback alike.
C5_MoveTransfersContent ==
    (/\ call.op = "move_file"
     /\ IsFile(pre, call.src)
     /\ \/ ~Exists(pre, call.dst)
        \/ /\ call.overwrite
           /\ Exists(pre, call.dst)
           /\ ~ReadOnly(pre, call.dst)
           /\ ~SameEntity(pre, call.src, call.dst)
     /\ res.tag = "Ok") =>
        /\ res.path = call.dst
        /\ fs.ent[call.src] = Absent
        /\ ~Exists(fs, call.src)
        /\ ReadContent(fs, call.dst) = ReadContent(pre, call.src)

\* A move across volumes over an existing writable destination: removal,
\* failed rename, copy, deletion of the source.
C5_Witness ==
    /\ call.op = "move_file"
    /\ call.overwrite
    /\ pre.ent[call.src].k = "file"
    /\ pre.ent[call.dst].k = "file"
    /\ res = OkPath(call.dst)
    /\ log = <<"remove_dst", "rename", "copy", "remove_src">>

IsMoveStep(x) == x \in {"rename", "copy", "remove_src"}

MoveSteps == SelectSeq(log, IsMoveStep)

\* The filesystem move_file's rename acts on: after the overwrite removal.
BeforeRename ==
    IF log # <<>> /\ Head(log) = "remove_dst"
        THEN remove_file(pre, call.dst, FALSE).fs ELSE pre

RenameOutcome == rename(BeforeRename, call.src, call.dst, call.fault = "rename")

\* C6: once its pre-flight (validation and overwrite removal) has passed,
\* move_file attempts the rename first and once; the copy-then-delete
\* fallback runs if and only if the rename failed as cross-device, at most
\* once; any other rename failure is returned as Io with no copy and no
\* source deletion; no step is attempted twice.
C6_RenameThenSingleFallback ==
    call.op = "move_file" =>
        /\ MoveSteps \in {<<>>, <<"rename">>, <<"rename", "copy">>,
                          <<"rename", "copy", "remove_src">>}
        /\ (MoveSteps = <<>>) <=>
                (res.tag \in ValidationErrors \/ (res.tag = "Io" /\ log = <<"remove_dst">>))
        /\ \A i, j \in 1..Len(log) : log[i] = log[j] => i = j
        /\ MoveSteps # <<>> =>
            /\ ("copy" \in {MoveSteps[i] : i \in 1..Len(MoveSteps)}) <=>
                    (~RenameOutcome.ok /\ RenameOutcome.kind = "CrossesDevices")
            /\ (~RenameOutcome.ok /\ RenameOutcome.kind # "CrossesDevices") =>
                    /\ res = IoErr
                    /\ MoveSteps = <<"rename">>
                    /\ fs = BeforeRename
            /\ RenameOutcome.ok => (res = OkPath(call.dst) /\ MoveSteps = <<"rename">>)

\* A rename that fails for another reason than crossing devices.
C6_Witness ==
    /\ call.op = "move_file"
    /\ call.fault = "rename"
    /\ Volume(call.src) = Volume(call.dst)
    /\ log = <<"rename">>
    /\ res = IoErr

\* open(2) for writing follows symbolic links: the content seen through p
\* becomes v.
WriteContent(f, p, v) == [f EXCEPT !.ino[f.ent[Resolve(f, p)].ino].data = v]

SharesFile(f, p, q) ==
    /\ IsFile(f, p) /\ IsFile(f, q)
    /\ \A v \in 0..MaxIno :
        /\ ReadContent(WriteContent(f, p, v), q) = v
        /\ ReadContent(WriteContent(f, q, v), p) = v

FreshCase ==
    /\ call.op \in {"copy_file", "hardlink_file"}
    /\ IsFile(pre, call.src)
    /\ pre.ent[call.dst] = Absent
    /\ ParentExists(call.dst)
    /\ ~call.overwrite

FreshOutcome ==
    /\ res = OkPath(call.dst)
    /\ pre.ent[call.src] = fs.ent[call.src]
    /\ ReadContent(fs, call.src) = ReadContent(pre, call.src)
    /\ Exists(fs, call.dst)
    /\ ReadContent(fs, call.dst) = ReadContent(fs, call.src)
    /\ call.op = "hardlink_file" => SharesFile(fs, call.src, call.dst)

\* C7 as stated: copy_file and hardlink_file of an existing regular source
\* to a fresh destination under an existing parent (overwrite = false)
\* always succeed (here even with no failure injected by the environment).
C7_FreshTransferAlwaysSucceeds ==
    (FreshCase /\ call.fault = "none") => FreshOutcome

\* C7 amended: such a call never fails validation; it returns Io only when
\* the copy or hard-link primitive fails (a hard link across volumes
\* always does), and then the source is unchanged; otherwise it returns
\* the destination path, the source is unchanged, the destination reads
\* the source's content and, for hardlink, both paths name the same file.
\* Without a primitive failure (for hardlink: on one volume) it succeeds.
C7_FreshTransfer ==
    FreshCase =>
        /\ res.tag \in {"Ok", "Io"}
        /\ res.tag = "Ok" => FreshOutcome
        /\ res.tag = "Io" =>
            /\ \/ call.fault # "none"
               \/ call.op = "hardlink_file" /\ Volume(call.src) # Volume(call.dst)
            /\ pre.ent[call.src] = fs.ent[call.src]
            /\ ReadContent(fs, call.src) = ReadContent(pre, call.src)
        /\ (/\ call.fault = "none"
            /\ call.op = "hardlink_file" => Volume(call.src) = Volume(call.dst)) =>
                res.tag = "Ok"

\* A hard link made on one volume.
C7_Witness ==
    /\ call.op = "hardlink_file"
    /\ ~call.overwrite
    /\ pre.ent[call.src].k = "file"
    /\ pre.ent[call.dst] = Absent
    /\ res = OkPath(call.dst)
    /\ fs.ent[call.dst] = fs.ent[call.src]

MutationStep ==
    CASE call.op = "move_file"     -> "rename"
      [] call.op = "symlink_file"  -> "symlink"
      [] call.op = "hardlink_file" -> "hard_link"
      [] OTHER                     -> "copy"

\* The call got past the source and destination checks of its operation.
PassedValidation ==
    /\ validate_source(pre, call.src).tag = "Ok"
    /\ ParentExists(call.dst)
    /\ call.op \in {"copy_file", "move_file"} => ~SameEntity(pre, call.src, call.dst)

\* C8: with overwrite = true on an existing destination that passed source
\* and destination validation, a read-only destination yields
\* PermissionError with the destination neither removed nor modified;
\* otherwise move, symlink and hardlink remove the destination immediately
\* before their mutation step and copy performs no removal at all.
C8_OverwritePolicy ==
    (Called /\ call.overwrite /\ Exists(pre, call.dst) /\ PassedValidation) =>
        IF ReadOnly(pre, call.dst)
        THEN /\ res = Err("PermissionError", call.dst)
             /\ fs = pre
             /\ log = <<>>
        ELSE IF call.op = "copy_file"
        THEN log = <<"copy">>
        ELSE /\ log # <<>>
             /\ Head(log) = "remove_dst"
             /\ Len(log) = 1 => (res = IoErr /\ fs = pre)
             /\ Len(log) > 1 =>
                    /\ log[2] = MutationStep
                    /\ BeforeRename.ent[call.dst] = Absent

\* A symbolic link created over an existing writable file.
C8_Witness ==
    /\ call.op = "symlink_file"
    /\ call.overwrite
    /\ pre.ent[call.dst].k = "file"
    /\ ~ReadOnly(pre, call.dst)
    /\ log = <<"remove_dst", "symlink">>
    /\ res = OkPath(call.dst)
    /\ fs.ent[call.dst] = LinkEnt(call.src)

Direct ==
    CASE call.via = "Copy" ->
            copy_file(pre, call.src, call.dst, call.overwrite, call.fault)
      [] call.via = "Move" ->
            move_file(pre, call.src, call.dst, call.overwrite, call.fault)
      [] call.via = "Symlink" ->
            symlink_file(pre, call.src, call.dst, call.overwrite, call.fault)
      [] call.via = "Hardlink" ->
            hardlink_file(pre, call.src, call.dst, call.overwrite, call.fault)

\* C9: transfer_file with mode m gives the result, the final filesystem
\* and the sequence of filesystem accesses of the operation for m called
\* directly on the same arguments and the same starting state.
C9_DispatchEqualsDirect ==
    call.via \in TransferMode =>
        /\ res = Direct.res
        /\ fs = Direct.fs
        /\ log = Direct.log

\* A dispatched hard link that changed the filesystem.
C9_Witness ==
    /\ call.via = "Hardlink"
    /\ res.tag = "Ok"
    /\ fs # pre
    /\ log = <<"hard_link">>

\* ------------------------------------------------------------------------
\* Properties of the traversal engine (checked under WalkSpec).
\* ------------------------------------------------------------------------

\* C10: walkdir and walkdir_lenient fail at once with PathNotFound(root)
\* when the root does not exist and with NotADirectory(root) when it is a
\* regular file; no iterator is returned, nothing is enumerated, and the
\* existence check is the first check made.
C10_WalkPreflight ==
    wcall.fn \in {"walkdir", "walkdir_lenient"} =>
        /\ probes # <<>> /\ Head(probes) = "exists"
        /\ ~WExists(tree, wcall.root) =>
            /\ wres = Err("PathNotFound", wcall.root)
            /\ probes = <<"exists">>
            /\ todo = <<>> /\ out = <<>>
        /\ WIsFile(tree, wcall.root) =>
            /\ wres = Err("NotADirectory", wcall.root)
            /\ todo = <<>> /\ out = <<>>

\* The lenient walk asked to start at a symbolic link to a regular file.
C10_Witness ==
    /\ wcall.fn = "walkdir_lenient"
    /\ tree[wcall.root].k = "link"
    /\ WIsFile(tree, wcall.root)
    /\ wres.tag = "NotADirectory"

\* The directory a walk of `root` enumerates (the root is followed when it
\* is a symbolic link).
WalkRoot == WResolve(tree, wcall.root)

\* n lies below directory d, and every directory from d down to n's parent
\* can be enumerated.
RECURSIVE ReachableFrom(_, _)
ReachableFrom(d, n) ==
    /\ WParent(n) # "/"
    /\ tree[WParent(n)].k = "dir" /\ tree[WParent(n)].rd
    /\ (WParent(n) = d \/ ReachableFrom(d, WParent(n)))

ReachableFiles == {n \in WNodes : tree[n].k = "file" /\ ReachableFrom(WalkRoot, n)}

\* The directories whose enumeration fails: the root, or one reached from it.
FailingDirs ==
    {n \in WNodes : /\ tree[n].k = "dir" /\ ~tree[n].rd
                    /\ (n = WalkRoot \/ ReachableFrom(WalkRoot, n))}

Positions(item) == {i \in 1..Len(out) : out[i] = item}

\* Depth-first order of the paths below "r".
DfsOrder == <<"r", "r/a", "r/s", "r/s/c", "r/b">>

DfsIndex(n) == CHOOSE i \in 1..Len(DfsOrder) : DfsOrder[i] = n

\* C11: for an existing directory root the sequence walkdir returns is
\* finite; once exhausted it has yielded every regular file reachable from
\* the root exactly once and no directory; each sub-directory whose
\* enumeration fails contributes exactly one WalkDir element, at its
\* depth-first position, and the files outside it are yielded all the
\* same, before and after that element.
C11_StrictWalkYieldsReachableFiles ==
    (wcall.fn = "walkdir" /\ wres.tag = "Ok") =>
        /\ Len(out) <= Cardinality(WNodes)
        /\ \A i \in 1..Len(out) :
            /\ out[i].tag \in {"Ok", "WalkDir"}
            /\ out[i].tag = "Ok" => out[i].path \in ReachableFiles
            /\ out[i].tag = "WalkDir" => out[i].path \in FailingDirs
            /\ \A j \in 1..Len(out) :
                i < j => DfsIndex(out[i].path) < DfsIndex(out[j].path)
        /\ exhausted =>
            /\ \A n \in ReachableFiles :
                Cardinality(Positions([tag |-> "Ok", path |-> n])) = 1
            /\ \A n \in FailingDirs :
                Cardinality(Positions([tag |-> "WalkDir", path |-> n])) = 1
            /\ Len(out) = Cardinality(ReachableFiles) + Cardinality(FailingDirs)

\* A file, then the error of an unreadable sub-directory, then a file.
C11_Witness ==
    /\ wcall = [fn |-> "walkdir", root |-> "r"]
    /\ exhausted
    /\ out = <<[tag |-> "Ok", path |-> "r/a"], [tag |-> "WalkDir", path |-> "r/s"],
               [tag |-> "Ok", path |-> "r/b"]>>

\* The whole sequence a strict walk yields, from a given iterator state.
RECURSIVE Drain(_)
Drain(td) ==
    LET r == walkdir_next(tree, td)
    IN  IF r.item.tag = "None" THEN <<>>
        ELSE <<[tag |-> r.item.tag, path |-> r.item.path]>> \o Drain(r.todo)

StrictWalk == Drain(walkdir(tree, wcall.root).todo)

IsMatch(item) ==
    /\ item.tag = "Ok"
    /\ names[item.path].stem = target.stem
    /\ names[item.path].ext = target.ext

IsError(item) == item.tag = "WalkDir"

\* Indexes of the walk where find_match_one returns: a match or an error.
Stops == {i \in 1..Len(StrictWalk) : IsMatch(StrictWalk[i]) \/ IsError(StrictWalk[i])}

Errors == {i \in 1..Len(StrictWalk) : IsError(StrictWalk[i])}

MatchPath(item) == item.path

RECURSIVE PathsOf(_)
PathsOf(items) ==
    IF items = <<>> THEN <<>> ELSE <<Head(items).path>> \o PathsOf(Tail(items))

\* C12: find_match_one and find_match_all consume the strict walk in order
\* and match on file name and extension.  find_match_one returns the first
\* match and pulls nothing after it (None when the walk ends without one);
\* find_match_all returns all matches in order.  An error element before
\* the first match (find_match_one) or anywhere in the walk
\* (find_match_all) becomes the result and the matches found are dropped;
\* an error after the first match does not affect find_match_one.
C12_FindMatch ==
    /\ (wcall.fn \in {"find_match_one", "find_match_all"}
            /\ walkdir(tree, wcall.root).res.tag # "Ok") =>
        /\ wres = walkdir(tree, wcall.root).res
        /\ found = <<>> /\ out = <<>>
    /\ (wcall.fn = "find_match_one" /\ walkdir(tree, wcall.root).res.tag = "Ok") =>
        IF Stops = {}
        THEN wres = OkUnit /\ found = <<>> /\ out = StrictWalk /\ exhausted
        ELSE LET i == Min(Stops) IN
             /\ out = SubSeq(StrictWalk, 1, i)
             /\ ~exhausted
             /\ IF IsError(StrictWalk[i])
                THEN wres = Err("WalkDir", StrictWalk[i].path) /\ found = <<>>
                ELSE wres = OkUnit /\ found = <<StrictWalk[i].path>>
    /\ (wcall.fn = "find_match_all" /\ walkdir(tree, wcall.root).res.tag = "Ok") =>
        IF Errors = {}
        THEN /\ wres = OkUnit
             /\ found = PathsOf(SelectSeq(StrictWalk, IsMatch))
             /\ out = StrictWalk /\ exhausted
        ELSE /\ wres = Err("WalkDir", StrictWalk[Min(Errors)].path)
             /\ found = <<>>
             /\ out = SubSeq(StrictWalk, 1, Min(Errors))

\* find_match_one returns its first match although the walk would yield an
\* error element after it.
C12_Witness ==
    /\ wcall.fn = "find_match_one"
    /\ wres = OkUnit
    /\ found = <<"r/a">>
    /\ out = <<[tag |-> "Ok", path |-> "r/a"]>>
    /\ Errors # {}
    /\ Len(StrictWalk) = 3

\* The spellings, among the extensions of Names, that equal an extension of
\* the allowlist up to letter case.
AudioSpellings == {"flac", "FLAC"}

AudioFiles == {n \in ReachableFiles : names[n].ext \in AudioSpellings}

\* C13: for an existing directory root find_audio_files returns Ok, also
\* when directories below the root cannot be enumerated, and the list is
\* exactly the regular files reached whose extension is, up to letter
\* case, in the allowlist: each once, in walk order; files without an
\* extension or with another one are left out.
C13_FindAudioFiles ==
    (wcall.fn = "find_audio_files" /\ WIsDir(tree, wcall.root)) =>
        /\ wres = OkUnit
        /\ {found[i] : i \in 1..Len(found)} = AudioFiles
        /\ Len(found) = Cardinality(AudioFiles)
        /\ \A i, j \in 1..Len(found) : i < j => DfsIndex(found[i]) < DfsIndex(found[j])
        /\ \A i \in 1..Len(out) : out[i].tag = "Ok"

\* An upper-case audio extension is kept, another file is left out, and an
\* unreadable sub-directory is skipped.
C13_Witness ==
    /\ wcall.fn = "find_audio_files"
    /\ wres = OkUnit
    /\ FailingDirs # {}
    /\ \E i \in 1..Len(found) : names[found[i]].ext = "FLAC"
    /\ \E n \in ReachableFiles : names[n].ext \in {"txt", NoExt}

\* ------------------------------------------------------------------------
\* Further properties of the transfer engine (checked under Spec).
\* ------------------------------------------------------------------------

\* C15: in a single-threaded run move_file does not lose the source: when
\* it returns any error the source entry and the content read through it
\* are as before the call; the source entry changes only when the call
\* succeeds, by the rename or, in the fallback, after the copy has put the
\* content at the destination.
C15_MoveKeepsSourceOnError ==
    call.op = "move_file" =>
        /\ res.tag # "Ok" =>
            /\ fs.ent[call.src] = pre.ent[call.src]
            /\ ReadContent(fs, call.src) = ReadContent(pre, call.src)
            /\ IsFile(pre, call.src) => IsFile(fs, call.src)
        /\ fs.ent[call.src] # pre.ent[call.src] =>
            /\ res = OkPath(call.dst)
            /\ \/ MoveSteps = <<"rename">>
               \/ /\ MoveSteps = <<"rename", "copy", "remove_src">>
                  /\ ReadContent(fs, call.dst) = ReadContent(pre, call.src)

\* The fallback copied the file but could not delete the source.
C15_Witness ==
    /\ call.op = "move_file"
    /\ call.fault = "remove_src"
    /\ res = IoErr
    /\ log = <<"remove_dst", "rename", "copy", "remove_src">>
    /\ pre.ent[call.src].k = "file"
    /\ fs.ent[call.src] = pre.ent[call.src]
    /\ ReadContent(fs, call.dst) = ReadContent(fs, call.src)

OverwriteCase ==
    /\ call.overwrite
    /\ validate_source(pre, call.src).tag = "Ok"
    /\ ParentExists(call.dst)
    /\ Exists(pre, call.dst)
    /\ ~ReadOnly(pre, call.dst)
    /\ ~SameEntity(pre, call.src, call.dst)

\* C16: move_file, symlink_file and hardlink_file with overwrite = true on
\* an existing writable destination distinct from the source attempt the
\* removal before their mutation step and never undo it: when the removal
\* succeeded and the call then returns an error, the error is Io and the
\* pre-existing destination is gone (no entry at the destination, or, when
\* only the fallback's source deletion failed, the copy of the source).
\* copy_file in the same case attempts no removal and the destination
\* entry is still there when it returns Io.
C16_RemovalNotRolledBack ==
    /\ (call.op \in {"move_file", "symlink_file", "hardlink_file"} /\ OverwriteCase) =>
        /\ log # <<>> /\ Head(log) = "remove_dst"
        /\ Len(log) = 1 => (res = IoErr /\ fs = pre)
        /\ Len(log) > 1 =>
            /\ log[2] = MutationStep
            /\ BeforeRename.ent[call.dst] = Absent
            /\ res.tag \in {"Ok", "Io"}
            /\ res.tag = "Io" =>
                IF log[Len(log)] = "remove_src"
                THEN /\ fs.ent[call.dst].k = "file"
                     /\ ReadContent(fs, call.dst) = ReadContent(pre, call.src)
                     /\ fs.ent[call.src] = pre.ent[call.src]
                ELSE /\ fs = BeforeRename
                     /\ fs.ent[call.dst] = Absent
                     /\ ~Exists(fs, call.dst)
    /\ (call.op = "copy_file" /\ OverwriteCase) =>
        /\ log = <<"copy">>
        /\ res.tag = "Io" => fs.ent[call.dst] = pre.ent[call.dst]

\* A hard link across volumes over an existing file: the file is removed,
\* the link fails, the call returns Io.
C16_Witness ==
    /\ call.op = "hardlink_file"
    /\ call.overwrite
    /\ call.fault = "none"
    /\ pre.ent[call.src].k = "file"
    /\ pre.ent[call.dst].k = "file"
    /\ log = <<"remove_dst", "hard_link">>
    /\ res = IoErr
    /\ fs.ent[call.dst] = Absent

\* ------------------------------------------------------------------------
\* Properties of concurrent callers (checked under ConcSpec).
\* ------------------------------------------------------------------------

AllReturned == \A c \in Procs : procs[c].pc = "returned"

PassedCheck(c) == procs[c].seen = "no" /\ procs[c].res.tag # "PathNotFound"

\* C14: nothing orders the steps of two copy_file(.., dst, false) calls.
\* A caller returns FileAlreadyExists only if the destination existed at
\* the instant of its own check, and a caller whose check saw the
\* destination never reaches the copy.  A caller whose check saw no
\* destination goes on to the copy whatever the other caller did since:
\* when both passed the check on a destination that can be created and the
\* sources are writable files, both return Ok.  Once all have returned,
\* the destination reads the source content of the caller that wrote last.
C14_CheckThenCopyRace ==
    /\ \A c \in Procs :
        /\ procs[c].res.tag = "FileAlreadyExists" => procs[c].seen = "yes"
        /\ (procs[c].pc = "returned" /\ procs[c].seen = "yes") =>
            procs[c].res.tag \in {"SameFile", "FileAlreadyExists"}
        /\ (procs[c].pc = "returned" /\ PassedCheck(c)) =>
            procs[c].res \in {OkPath(cdst), IoErr}
        /\ procs[c].pc \in {"l80", "l80w"} => procs[c].seen = "no"
    /\ (/\ AllReturned
        /\ \A c \in Procs : PassedCheck(c) /\ ~ReadOnly(pre, procs[c].src)
        /\ Resolve(pre, cdst) # NoSlot) =>
            \A c \in Procs : procs[c].res = OkPath(cdst)
    /\ (AllReturned /\ wrote # <<>>) =>
        ReadContent(fs, cdst) = ReadContent(pre, procs[wrote[Len(wrote)]].src)

\* Both callers passed the check of a fresh destination and both returned
\* Ok; the destination holds what "q", the last to write, copied, and not
\* what "p" copied.
C14_Witness ==
    /\ AllReturned
    /\ ~Exists(pre, cdst)
    /\ \A c \in Procs : procs[c].res = OkPath(cdst) /\ procs[c].seen = "no"
    /\ procs["p"].src # procs["q"].src
    /\ ReadContent(pre, procs["p"].src) # ReadContent(pre, procs["q"].src)
    /\ wrote = <<"p", "q">>
    /\ ReadContent(fs, cdst) = ReadContent(pre, procs["q"].src)

====
